---------------------------- MODULE Spec2Model ----------------------------
(***************************************************************************)
(* Model of the incremental markdown build (src/index.ts) and of its       *)
(* helpers (src/utils.ts, src/fm-type.ts, src/dist/fm-type.js).            *)
(*                                                                         *)
(* A string is a sequence of one-character strings.  A path is a record    *)
(* [dir, name, ext]; path.parse(p).name is its name field.  The output     *)
(* directory is flat and holds only *.json, so an output file is keyed by  *)
(* its name.                                                               *)
(***************************************************************************)
EXTENDS Integers, Sequences, FiniteSets, TLC

VARIABLES
  now,           \* the file system clock (mtime given to a file written now)
  srcFiles,      \* input directory: path -> [mtime, body]
  outFiles,      \* output directory: name -> [mtime, json]
  pc,            \* position of newMarkdownProcessor
  force,         \* the -f option of the running build
  postsName,     \* the --posts option of the running build
  inDirFiles,    \* glob of the input directory (line 88), a sequence of paths
  res,           \* the DiffResult (line 114)
  pendingRm,     \* fs.rm calls of rmAll still in flight
  pendingRender, \* processMd tasks of the asyncFor at line 123 still in flight
  result,        \* result: ContentType[] (line 121)
  errored,       \* errored (line 122)
  pendingWrite,  \* fs.writeFile tasks of the asyncFor at line 139 in flight
  pendingReuse,  \* readFile tasks of the asyncFor at line 147 in flight
  posts,         \* posts (line 146)
  hist,          \* observations of the running build (history, not program state)
  dIn,           \* SpecDiff: the two stat sequences handed to diff
  dOut,          \* SpecDiff: the DiffResult diff returned
  lostStats      \* mtime of each source deleted while the build waited for diff

vars == <<now, srcFiles, outFiles, pc, force, postsName, inDirFiles, res,
          pendingRm, pendingRender, result, errored, pendingWrite,
          pendingReuse, posts, hist, dIn, dOut, lostStats>>

buildVars == <<now, srcFiles, outFiles, pc, force, postsName, inDirFiles, res,
               pendingRm, pendingRender, result, errored, pendingWrite,
               pendingReuse, posts, hist, lostStats>>

diffVars == <<dIn, dOut>>

-----------------------------------------------------------------------------
(* Bounds of the model *)

\* the clock runs from 0 to MaxTime
MaxTime == 1

\* number of builds started in one behaviour
MaxBuilds == 2

\* number of edits or deletions of source files in one behaviour
MaxEdits == 1

\* number of source files a project holds
MaxSrc == 2

-----------------------------------------------------------------------------
(* Strings, options, paths *)

Range(s) == {s[i] : i \in 1..Len(s)}

\* undefined, as returned by getNameOptional and checkDuplicates
Undefined == [defined |-> FALSE]

Some(v) == [defined |-> TRUE, value |-> v]

\* the characters of the class [a-zA-Z0-9_-]
IdChars ==
  {"a","b","c","d","e","f","g","h","i","j","k","l","m","n","o","p","q","r",
   "s","t","u","v","w","x","y","z","A","B","C","D","E","F","G","H","I","J",
   "K","L","M","N","O","P","Q","R","S","T","U","V","W","X","Y","Z","0","1",
   "2","3","4","5","6","7","8","9","_","-"}

\* PostNameRegex.test(s), /^[a-zA-Z0-9_-]+$/
PostNameRegex(s) == Len(s) > 0 /\ \A i \in 1..Len(s) : s[i] \in IdChars

\* a scan that stops at the first "]" only, as for /\[([^\]]+)\]/g
RECURSIVE RunEndLoose(_, _)
RunEndLoose(s, i) ==
  IF i > Len(s) \/ s[i] = "]" THEN i ELSE RunEndLoose(s, i + 1)

\* index of the first character at or after i that is not of the class
\* (Len(s) + 1 when there is none)
RECURSIVE RunEnd(_, _)
RunEnd(s, i) ==
  IF i > Len(s) \/ s[i] \notin IdChars THEN i ELSE RunEnd(s, i + 1)

\* s.matchAll(FromFileName), /\[([a-zA-Z0-9_-]+)\]/g : the capture groups of
\* the successive leftmost non-overlapping matches found from position i on
RECURSIVE FromFileName(_, _)
FromFileName(s, i) ==
  IF i > Len(s) THEN <<>>
  ELSE IF s[i] = "["
       THEN LET j == RunEnd(s, i + 1)
            IN IF j > i + 1 /\ j <= Len(s) /\ s[j] = "]"
               THEN <<SubSeq(s, i + 1, j - 1)>> \o FromFileName(s, j + 1)
               ELSE FromFileName(s, i + 1)
       ELSE FromFileName(s, i + 1)

\* path.parse(filePath).name
PathParseName(filePath) == filePath.name

\* a loop over the matches that keeps the first capture whatever follows
MatchLoopFirst(match, k, found) ==
  IF match = <<>> THEN Undefined ELSE Some(match[1])

\* the loop of getNameOptional over the matches: a second match returns
\* undefined, otherwise the first capture is the result
RECURSIVE MatchLoop(_, _, _)
MatchLoop(match, k, found) ==
  IF k > Len(match) THEN found
  ELSE IF found.defined THEN Undefined
       ELSE MatchLoop(match, k + 1, Some(match[k]))

getNameOptional(filePath) ==
  LET name == PathParseName(filePath)
  IN IF PostNameRegex(name) THEN Some(name)
     ELSE MatchLoop(FromFileName(name, 1), 1, Undefined)

\* getName throws when the name does not resolve; every caller in the model
\* passes a path that resolves, the thrown case is the value Undefined
getName(filePath) ==
  LET r == getNameOptional(filePath)
  IN IF r.defined THEN r.value ELSE Undefined

Md(dir, name) == [dir |-> dir, name |-> name, ext |-> "md"]

\* path.join(outDir, name + '.json')
Json(name) == [dir |-> "out", name |-> name, ext |-> "json"]

\* the default of the --posts option
DefaultPostsName == <<"p","o","s","t","s">>

\* the source paths of the model: two that resolve to a, one to b, one to the
\* default index name, one that does not resolve
SrcA == Md("in", <<"a">>)
SrcXA == Md("in", <<"x","-","[","a","]">>)
SrcB == Md("in", <<"b">>)
SrcPosts == Md("in", DefaultPostsName)
SrcBad == Md("in", <<"a"," ","b">>)

SrcPaths == {SrcA, SrcXA, SrcB, SrcPosts, SrcBad}

\* the sequences without repetition over the subsets of S
Orders(S) ==
  {s \in UNION {[1..n -> S] : n \in 0..Cardinality(S)} :
     \A i, j \in 1..Len(s) : i # j => s[i] # s[j]}

\* the orders in which the tasks of one fan-out over S can complete, and
\* the arrays glob can return for a directory that holds S (glob documents no
\* order)
Perms(S) == {s \in Orders(S) : Len(s) = Cardinality(S)}

-----------------------------------------------------------------------------
(* diff *)

\* Map.set: a new key is appended, an existing key keeps its place
RECURSIVE MapSet(_, _, _)
MapSet(m, key, val) ==
  IF m = <<>> THEN <<val>>
  ELSE IF Head(m).name = key THEN <<val>> \o Tail(m)
       ELSE <<Head(m)>> \o MapSet(Tail(m), key, val)

\* a lookup that never finds the key
MapHasNever(m, key) == FALSE

MapHas(m, key) == \E i \in 1..Len(m) : m[i].name = key

MapGet(m, key) == m[CHOOSE i \in 1..Len(m) : m[i].name = key]

\* a Map.delete that leaves the entry in place
MapDeleteKept(m, key) == m

MapDelete(m, key) == SelectSeq(m, LAMBDA e : e.name # key)

\* the asyncFor that fills a map: stats is the sequence of [path, mtime] in
\* the order in which the fs.stat calls complete
RECURSIVE StatMap(_, _)
StatMap(stats, m) ==
  IF stats = <<>> THEN m
  ELSE LET name == getName(Head(stats).path)
       IN StatMap(Tail(stats),
                  MapSet(m, name, [name |-> name, path |-> Head(stats).path,
                                   mtime |-> Head(stats).mtime]))

\* a comparison that takes every output for newer
IsNewerAlways(processedMtime, originalMtime) == TRUE

\* the comparison turned round
IsOlder(processedMtime, originalMtime) == processedMtime < originalMtime

\* the comparison with >= in place of >
IsNewerOrEqual(processedMtime, originalMtime) == processedMtime >= originalMtime

\* processedStat.mtime > originalStat.mtime
IsNewer(processedMtime, originalMtime) == processedMtime > originalMtime

\* the loop over processedMap.entries(): st holds the two maps and case1,
\* case2; entries is what the iterator still has to visit (deleting the
\* current key does not disturb it)
RECURSIVE DiffLoop(_, _)
DiffLoop(entries, st) ==
  IF entries = <<>> THEN st
  ELSE LET processedStat == Head(entries)
           name == processedStat.name
       IN IF MapHas(st.originalMap, name)
          THEN LET originalStat == MapGet(st.originalMap, name)
                   caseEntry == [name |-> name,
                                 originalFile |-> originalStat.path,
                                 processedFile |-> processedStat.path]
                   newer == IsNewer(processedStat.mtime, originalStat.mtime)
               IN DiffLoop(Tail(entries),
                    [processedMap |-> MapDelete(st.processedMap, name),
                     originalMap |-> MapDelete(st.originalMap, name),
                     case1 |-> IF newer THEN Append(st.case1, caseEntry)
                               ELSE st.case1,
                     case2 |-> IF newer THEN st.case2
                               ELSE Append(st.case2, caseEntry)])
          ELSE DiffLoop(Tail(entries), st)

diff(processeds, originals) ==
  LET processedMap == StatMap(processeds, <<>>)
      originalMap == StatMap(originals, <<>>)
      st == DiffLoop(processedMap,
                     [processedMap |-> processedMap, originalMap |-> originalMap,
                      case1 |-> <<>>, case2 |-> <<>>])
  IN [case1 |-> st.case1,
      case2 |-> st.case2,
      case3 |-> [i \in 1..Len(st.processedMap) |->
                   [name |-> st.processedMap[i].name,
                    processedFile |-> st.processedMap[i].path]],
      case4 |-> [i \in 1..Len(st.originalMap) |->
                   [name |-> st.originalMap[i].name,
                    originalFile |-> st.originalMap[i].path]]]

EmptyDiff == [case1 |-> <<>>, case2 |-> <<>>, case3 |-> <<>>, case4 |-> <<>>]

-----------------------------------------------------------------------------
(* Name validation and duplicate detection (src/index.ts) *)

\* checkFilenamesRegex: the paths, in input order, whose name does not resolve
\* or whose resolved name fails PostNameRegex
RECURSIVE checkFilenamesRegex(_)
checkFilenamesRegex(files) ==
  IF files = <<>> THEN <<>>
  ELSE LET path == Head(files)
           name == getNameOptional(path)
           rest == checkFilenamesRegex(Tail(files))
       IN IF ~name.defined THEN <<path>> \o rest
          ELSE IF ~PostNameRegex(name.value) THEN <<path>> \o rest
               ELSE rest

\* the forEach of checkDuplicates: duplicateCheck as a sequence of
\* [name, paths] in insertion order
RECURSIVE DuplicateMap(_, _)
DuplicateMap(files, duplicateCheck) ==
  IF files = <<>> THEN duplicateCheck
  ELSE LET path == Head(files)
           name == getName(path)
       IN DuplicateMap(Tail(files),
            IF MapHas(duplicateCheck, name)
            THEN MapSet(duplicateCheck, name,
                        [name |-> name,
                         paths |-> Append(MapGet(duplicateCheck, name).paths, path)])
            ELSE Append(duplicateCheck, [name |-> name, paths |-> <<path>>]))

\* a duplicate check that never reports
checkDuplicatesNever(files) == Undefined

\* the property name that is no key of a plain object: fails['__proto__'] =
\* value sets the prototype of fails and creates no property
ProtoKey == <<"_", "_", "p", "r", "o", "t", "o", "_", "_">>

\* checkDuplicates: undefined, or the object fails, whose properties (as
\* Object.entries sees them) are the names with more than one path, each
\* mapped to its paths; the assignment at line 456 makes no property for the
\* name __proto__, while success is false all the same
checkDuplicates(files) ==
  LET duplicateCheck == DuplicateMap(files, <<>>)
      failed == {i \in 1..Len(duplicateCheck) : Len(duplicateCheck[i].paths) # 1}
  IN IF failed = {} THEN Undefined
     ELSE Some([n \in {duplicateCheck[i].name : i \in failed} \ {ProtoKey} |->
                  MapGet(duplicateCheck, n).paths])

-----------------------------------------------------------------------------
(* Source bodies, processMd, JSON, generatePostsjson *)

\* a markdown source: whether it has a front-matter block, whether the block
\* passes the schema, its draft and unlisted flags, its writtenDate, and
\* whether its code blocks highlight without error
Body(hasFm, valid, draft, unlisted, d, highlights) ==
  [hasFm |-> hasFm, valid |-> valid, draft |-> draft, unlisted |-> unlisted,
   writtenDate |-> [raw |-> d], highlights |-> highlights]

Dates == {1, 2}

\* the time value of new Date(s) for a string s that is no date (Invalid Date)
InvalidDate == -1

PlainBody(d) == Body(TRUE, TRUE, FALSE, FALSE, d, TRUE)
UnlistedBody == Body(TRUE, TRUE, FALSE, TRUE, 1, TRUE)
DraftBody == Body(TRUE, TRUE, TRUE, FALSE, 1, TRUE)
NoFmBody == Body(FALSE, FALSE, FALSE, FALSE, 1, TRUE)

\* what fs.readFile gives for a path that has no file: it rejects (ENOENT)
NoFile == [enoent |-> TRUE]

\* front-matter that passes the schema with a writtenDate that is no date
BadDateBody == Body(TRUE, TRUE, FALSE, FALSE, InvalidDate, TRUE)

\* a code block on which the highlighter throws
BadCodeBody == Body(TRUE, TRUE, FALSE, FALSE, 1, FALSE)

Bodies ==
  {PlainBody(d) : d \in Dates}
    \cup {UnlistedBody, DraftBody, NoFmBody, BadDateBody, BadCodeBody}

\* new Date(x): the instant of a front-matter date or of an ISO string
NewDate(x) == IF "iso" \in DOMAIN x THEN x.iso ELSE x.raw

\* date.toISOString() of a valid date (it throws RangeError on Invalid Date)
ToISOString(t) == [iso |-> t]

\* the body makes processMd throw: no file to read, no front-matter, front-matter that fails
\* the schema, or, for a source that is no draft, a code block that fails to
\* highlight or a writtenDate that is no date
BodyFails(b) ==
  \/ b = NoFile
  \/ ~b.hasFm
  \/ ~b.valid
  \/ ~b.draft /\ (~b.highlights \/ b.writtenDate.raw = InvalidDate)

\* the body makes processMd return a record
BodyPublished(b) ==
  /\ b # NoFile
  /\ b.hasFm /\ b.valid /\ ~b.draft
  /\ b.highlights /\ b.writtenDate.raw # InvalidDate

\* a processMd for which a draft is an error
processMdDraftThrows(filePath, body) ==
  IF body = NoFile THEN [kind |-> "throw"]
  ELSE IF ~body.hasFm \/ ~body.valid \/ body.draft THEN [kind |-> "throw"]
  ELSE IF ~body.highlights \/ NewDate(body.writtenDate) = InvalidDate
  THEN [kind |-> "throw"]
  ELSE [kind |-> "value",
        value |-> [content |-> "html",
                   name |-> getName(filePath),
                   metadata |-> [writtenDate |->
                                   ToISOString(NewDate(body.writtenDate))],
                   unlisted |-> IF body.unlisted THEN "true" ELSE "undefined"]]

\* a processMd that skips a source without front-matter instead of throwing
processMdLenient(filePath, body) ==
  IF body = NoFile THEN [kind |-> "throw"]
  ELSE IF ~body.hasFm \/ ~body.valid \/ body.draft THEN [kind |-> "null"]
  ELSE IF ~body.highlights \/ NewDate(body.writtenDate) = InvalidDate
  THEN [kind |-> "throw"]
  ELSE [kind |-> "value",
        value |-> [content |-> "html",
                   name |-> getName(filePath),
                   metadata |-> [writtenDate |->
                                   ToISOString(NewDate(body.writtenDate))],
                   unlisted |-> IF body.unlisted THEN "true" ELSE "undefined"]]

\* line 216: fs.readFile(filePath) of a source
ReadFile(filePath) ==
  IF filePath \in DOMAIN srcFiles THEN srcFiles[filePath].body ELSE NoFile

\* processMd: throws, returns null (draft) or returns a ContentType.  It
\* throws when the file is gone (readFile rejects at line 216).  Behind
\* the draft check the pipeline throws when a code block fails to highlight
\* (line 236, fatalOnError) and toISOString throws on a writtenDate that is no
\* date (line 243)
processMd(filePath, body) ==
  LET name == getName(filePath)
  IN IF body = NoFile THEN [kind |-> "throw"]
     ELSE IF ~body.hasFm THEN [kind |-> "throw"]
     ELSE IF ~body.valid THEN [kind |-> "throw"]
     ELSE IF body.draft THEN [kind |-> "null"]
     ELSE IF ~body.highlights THEN [kind |-> "throw"]
     ELSE IF NewDate(body.writtenDate) = InvalidDate THEN [kind |-> "throw"]
     ELSE [kind |-> "value",
           value |-> [content |-> "html",
                      name |-> name,
                      metadata |-> [writtenDate |->
                                      ToISOString(NewDate(body.writtenDate))],
                      unlisted |-> IF body.unlisted THEN "true" ELSE "undefined"]]

\* o.unlisted of an object that may lack the property
GetUnlisted(o) == IF "unlisted" \in DOMAIN o THEN o.unlisted ELSE "undefined"

Truthy(v) == v = "true"

\* lodash.omit(o, keys)
Omit(o, keys) == [k \in DOMAIN o \ keys |-> o[k]]

\* JSON.stringify of an object: a property whose value is undefined is left out
StringifyObject(o) ==
  IF "unlisted" \in DOMAIN o /\ o.unlisted = "undefined"
  THEN Omit(o, {"unlisted"}) ELSE o

\* the text of a file: JSON.stringify of one object or of an array of objects
JSONStringify(val) == [type |-> "object", object |-> StringifyObject(val), array |-> <<>>]

JSONStringifyArray(list) ==
  [type |-> "array", object |-> <<>>,
   array |-> [i \in 1..Len(list) |-> StringifyObject(list[i])]]

\* JSON.parse of the text of a per-post output
JSONParse(text) == text.object

\* a generatePostsjson that drops the unlisted records and keeps content
generatePostsjsonWithContent(list) ==
  SelectSeq(list, LAMBDA r : ~Truthy(GetUnlisted(r)))

\* a generatePostsjson that keeps unlisted records
generatePostsjsonAll(list) == [i \in 1..Len(list) |-> Omit(list[i], {"content"})]

\* generatePostsjson: drop the unlisted records, omit content from the others
RECURSIVE generatePostsjson(_)
generatePostsjson(list) ==
  IF list = <<>> THEN <<>>
  ELSE LET cur == Head(list)
       IN IF Truthy(GetUnlisted(cur)) THEN generatePostsjson(Tail(list))
          ELSE <<Omit(cur, {"content"})>> \o generatePostsjson(Tail(list))

\* a comparator that orders by ascending date
SortCompareAscending(a, b) ==
  LET dateA == NewDate(a.metadata.writtenDate)
      dateB == NewDate(b.metadata.writtenDate)
  IN IF dateA < dateB THEN -1 ELSE IF dateB < dateA THEN 1 ELSE 0

\* the comparator of posts.sort
SortCompare(a, b) ==
  LET dateA == NewDate(a.metadata.writtenDate)
      dateB == NewDate(b.metadata.writtenDate)
  IN IF dateA < dateB THEN 1 ELSE IF dateB < dateA THEN -1 ELSE 0

\* insertion of e behind every element it does not have to precede
RECURSIVE SortInsert(_, _)
SortInsert(sorted, e) ==
  IF sorted = <<>> THEN <<e>>
  ELSE IF SortCompare(Head(sorted), e) > 0 THEN <<e>> \o sorted
       ELSE <<Head(sorted)>> \o SortInsert(Tail(sorted), e)

\* Array.prototype.sort with SortCompare (a stable sort)
RECURSIVE SortPosts(_)
SortPosts(list) ==
  IF list = <<>> THEN <<>>
  ELSE SortInsert(SortPosts(SubSeq(list, 1, Len(list) - 1)), list[Len(list)])

-----------------------------------------------------------------------------
(* The file system *)

Put(f, k, v) == [x \in DOMAIN f \cup {k} |-> IF x = k THEN v ELSE f[x]]

Remove(f, K) == [x \in DOMAIN f \ K |-> f[x]]

\* fs.writeFile(path.join(outDir, name + '.json'), text)
WriteFile(files, name, text) == Put(files, name, [mtime |-> now, json |-> text])

-----------------------------------------------------------------------------
(* newMarkdownProcessor (src/index.ts, lines 77-165) and its environment *)

\* between two builds
Quiet == pc \in {"idle", "done", "aborted"}

\* the observations kept of a build that has not started yet
NoHist ==
  [builds |-> 0, edits |-> 0, outAtStart |-> <<>>, nameCheck |-> <<>>,
   dupCheck |-> Undefined, calls |-> <<>>, reported |-> {}, wrote |-> {},
   indexWritten |-> FALSE, deleted |-> {}, rmFailed |-> FALSE, abort |-> "",
   repeatRun |-> FALSE, prevIndex |-> <<>>, orphaned |-> {}, read |-> {}]

\* the projects a behaviour starts from: at most MaxSrc source files, an empty
\* output directory
Init ==
  /\ now = 0
  /\ \E S \in SUBSET SrcPaths :
       /\ Cardinality(S) <= MaxSrc
       /\ \E b \in [S -> Bodies] :
            srcFiles = [p \in S |-> [mtime |-> 0, body |-> b[p]]]
  /\ outFiles = <<>>
  /\ pc = "idle"
  /\ force = FALSE
  /\ postsName = DefaultPostsName
  /\ inDirFiles = <<>>
  /\ res = EmptyDiff
  /\ pendingRm = {}
  /\ pendingRender = {}
  /\ result = <<>>
  /\ errored = FALSE
  /\ pendingWrite = {}
  /\ pendingReuse = {}
  /\ posts = <<>>
  /\ hist = NoHist
  /\ dIn = [processeds |-> <<>>, originals |-> <<>>]
  /\ dOut = [called |-> FALSE, value |-> EmptyDiff]
  /\ lostStats = <<>>

\* the clock advances; a build is short against the granularity of mtime, so
\* the clock advances between builds
Tick ==
  /\ Quiet
  /\ hist.builds < MaxBuilds
  /\ now < MaxTime
  /\ now' = now + 1
  /\ UNCHANGED <<srcFiles, outFiles, pc, force, postsName, inDirFiles, res,
                 pendingRm, pendingRender, result, errored, pendingWrite,
                 pendingReuse, posts, hist, dIn, dOut, lostStats>>

\* the identities whose only source was deleted between two builds while
\* their output existed
OrphanedBase == IF pc = "done" THEN {} ELSE hist.orphaned

\* the user writes a source file: a new file, new content, or the content
\* the file has (the mtime changes all the same)
EditSource(p, body) ==
  /\ Quiet
  /\ hist.builds < MaxBuilds
  /\ hist.edits < MaxEdits
  /\ p \in DOMAIN srcFiles \/ Cardinality(DOMAIN srcFiles) < MaxSrc
  /\ srcFiles' = Put(srcFiles, p, [mtime |-> now, body |-> body])
  /\ pc' = "idle"
  /\ hist' = [hist EXCEPT !.edits = @ + 1,
                          !.orphaned = IF getNameOptional(p).defined
                                       THEN OrphanedBase \ {getName(p)}
                                       ELSE OrphanedBase]
  /\ lostStats' = <<>>
  /\ UNCHANGED <<now, outFiles, force, postsName, inDirFiles, res, pendingRm,
                 pendingRender, result, errored, pendingWrite, pendingReuse,
                 posts, dIn, dOut>>

\* the user deletes a source file, between two builds or while a build waits
\* for the glob of the output directory and the stats of diff (lines 109-114).
\* In that window the mtime of the file is kept: it is what the fs.stat of
\* line 366 has returned if it resolved before the deletion
DeleteSource(p) ==
  /\ Quiet \/ pc = "diff"
  /\ Quiet => hist.builds < MaxBuilds
  /\ hist.edits < MaxEdits
  /\ p \in DOMAIN srcFiles
  /\ srcFiles' = Remove(srcFiles, {p})
  /\ pc' = IF Quiet THEN "idle" ELSE pc
  /\ lostStats' = IF Quiet THEN <<>> ELSE Put(lostStats, p, srcFiles[p].mtime)
  /\ LET n == getNameOptional(p)
         single == \A q \in DOMAIN srcFiles \ {p} : getNameOptional(q) # n
     IN hist' = [hist EXCEPT
                   !.edits = @ + 1,
                   !.repeatRun = IF Quiet THEN @ ELSE FALSE,
                   !.orphaned = IF ~Quiet THEN @
                                ELSE IF /\ n.defined
                                   /\ single
                                   /\ n.value # postsName
                                   /\ n.value \in DOMAIN outFiles
                                THEN OrphanedBase \cup {n.value}
                                ELSE OrphanedBase]
  /\ UNCHANGED <<now, outFiles, force, postsName, inDirFiles, res, pendingRm,
                 pendingRender, result, errored, pendingWrite, pendingReuse,
                 posts, dIn, dOut>>

\* the glob of the output directory without the filter on the index name
OutDirFilesAll(name) == {Json(n) : n \in DOMAIN outFiles}

\* glob(path.join(outDir, '*.json')) filtered by name !== postsName (109-113)
OutDirFiles(name) == {Json(n) : n \in DOMAIN outFiles \ {name}}

\* lines 90-97: the name check makes the build return
NamesAbort(nameCheck) == Len(nameCheck) # 0

\* a duplicate check whose report does not make the build return
DupsAbortNever(dupCheck) == FALSE

\* lines 98-106: the duplicate check makes the build return
DupsAbort(dupCheck) == dupCheck.defined

\* lines 82-106: glob of the input directory, which returned the array files,
\* and the two checks
StartBuild(f, files) ==
  /\ Quiet
  /\ hist.builds < MaxBuilds
  /\ files \in Perms(DOMAIN srcFiles)
  /\ LET nameCheck == checkFilenamesRegex(files)
         dupCheck == IF NamesAbort(nameCheck) THEN Undefined
                     ELSE checkDuplicates(files)
         h == [hist EXCEPT
                 !.builds = @ + 1, !.outAtStart = outFiles,
                 !.nameCheck = nameCheck, !.dupCheck = dupCheck,
                 !.calls = <<>>, !.reported = {}, !.wrote = {},
                 !.indexWritten = FALSE, !.deleted = {}, !.rmFailed = FALSE,
                 !.abort = "", !.read = {},
                 !.repeatRun = (pc = "done" /\ ~f),
                 !.prevIndex = IF pc = "done" THEN outFiles[postsName].json.array
                               ELSE <<>>]
     IN /\ inDirFiles' = files
        /\ force' = f
        /\ IF NamesAbort(nameCheck)
           THEN /\ pc' = "aborted"
                /\ hist' = [h EXCEPT !.abort = "names"]
           ELSE IF DupsAbort(dupCheck)
           THEN /\ pc' = "aborted"
                /\ hist' = [h EXCEPT !.abort = "dups"]
           ELSE /\ pc' = "diff"
                /\ hist' = h
  /\ res' = EmptyDiff
  /\ pendingRm' = {}
  /\ pendingRender' = {}
  /\ result' = <<>>
  /\ errored' = FALSE
  /\ pendingWrite' = {}
  /\ pendingReuse' = {}
  /\ posts' = <<>>
  /\ lostStats' = <<>>
  /\ UNCHANGED <<now, srcFiles, outFiles, postsName, dIn, dOut>>

\* the mtime the fs.stat of line 366 returns for a source: of the file on
\* disk, or, for a source deleted after its fs.stat resolved, of the file as
\* it was
StatSource(p) ==
  IF p \in DOMAIN srcFiles THEN srcFiles[p].mtime ELSE lostStats[p]

\* lines 109-114: the glob of the output directory and diff.  po and so are
\* the orders in which the fs.stat calls of the outputs and of the sources
\* complete inside diff (two fan-outs, the outputs first).  The fs.stat of a
\* source deleted in the meantime had resolved before the deletion
RunDiff(po, so) ==
  /\ pc = "diff"
  /\ po \in Perms(OutDirFiles(postsName))
  /\ so \in Perms(Range(inDirFiles))
  /\ res' = diff([i \in 1..Len(po) |->
                    [path |-> po[i], mtime |-> outFiles[po[i].name].mtime]],
                 [i \in 1..Len(so) |->
                    [path |-> so[i], mtime |-> StatSource(so[i])]])
  /\ pendingRm' = {res'.case3[i].processedFile : i \in 1..Len(res'.case3)}
  /\ pc' = "rm"
  /\ UNCHANGED <<now, srcFiles, outFiles, force, postsName, inDirFiles,
                 pendingRender, result, errored, pendingWrite, pendingReuse,
                 posts, hist, dIn, dOut, lostStats>>

\* lines 364-372: a source that glob returned was deleted before its fs.stat
\* ran; the fs.stat rejects (ENOENT), diff rejects and newMarkdownProcessor
\* ends at line 114
StatRejects ==
  /\ pc = "diff"
  /\ ~(Range(inDirFiles) \subseteq DOMAIN srcFiles)
  /\ pc' = "aborted"
  /\ hist' = [hist EXCEPT !.abort = "stat"]
  /\ UNCHANGED <<now, srcFiles, outFiles, force, postsName, inDirFiles, res,
                 pendingRm, pendingRender, result, errored, pendingWrite,
                 pendingReuse, posts, dIn, dOut, lostStats>>

\* an fs.rm that resolves without removing the file
RmSkipped(path) ==
  /\ pc = "rm"
  /\ path \in pendingRm
  /\ pendingRm' = pendingRm \ {path}
  /\ UNCHANGED <<now, srcFiles, outFiles, pc, force, postsName, inDirFiles,
                 res, pendingRender, result, errored, pendingWrite,
                 pendingReuse, posts, hist, dIn, dOut, lostStats>>

\* line 115, rmAll: one fs.rm succeeds
RmDone(path) ==
  /\ pc = "rm"
  /\ path \in pendingRm
  /\ outFiles' = Remove(outFiles, {path.name})
  /\ pendingRm' = pendingRm \ {path}
  /\ hist' = [hist EXCEPT !.deleted = @ \cup {path.name}]
  /\ UNCHANGED <<now, srcFiles, pc, force, postsName, inDirFiles, res,
                 pendingRender, result, errored, pendingWrite, pendingReuse,
                 posts, dIn, dOut, lostStats>>

\* line 115, rmAll: one fs.rm rejects; Promise.all rejects, the await at
\* line 115 throws and newMarkdownProcessor ends there.  The fs.rm calls still
\* in flight complete or not.
RmFailed(path) ==
  /\ pc = "rm"
  /\ path \in pendingRm
  /\ \E S \in SUBSET (pendingRm \ {path}) :
       /\ outFiles' = Remove(outFiles, {q.name : q \in S})
       /\ hist' = [hist EXCEPT !.deleted = @ \cup {q.name : q \in S},
                               !.rmFailed = TRUE, !.abort = "rm"]
  /\ pendingRm' = {}
  /\ pc' = "aborted"
  /\ UNCHANGED <<now, srcFiles, force, postsName, inDirFiles, res,
                 pendingRender, result, errored, pendingWrite, pendingReuse,
                 posts, dIn, dOut, lostStats>>

\* a needToProcess that takes Case 1 in whatever force says
NeedToProcessAll(d, f) ==
  {d.case1[i].originalFile : i \in 1..Len(d.case1)}
    \cup {d.case2[i].originalFile : i \in 1..Len(d.case2)}
    \cup {d.case4[i].originalFile : i \in 1..Len(d.case4)}

\* a needToProcess that leaves Case 1 out whatever force says
NeedToProcessUnforced(d, f) ==
  {d.case2[i].originalFile : i \in 1..Len(d.case2)}
    \cup {d.case4[i].originalFile : i \in 1..Len(d.case4)}

\* lines 116-120: needToProcess
NeedToProcess(d, f) ==
  {d.case2[i].originalFile : i \in 1..Len(d.case2)}
    \cup {d.case4[i].originalFile : i \in 1..Len(d.case4)}
    \cup (IF f THEN {d.case1[i].originalFile : i \in 1..Len(d.case1)} ELSE {})

\* lines 116-123: rmAll has resolved, the render fan-out starts
BeginRender ==
  /\ pc = "rm"
  /\ pendingRm = {}
  /\ pendingRender' = NeedToProcess(res, force)
  /\ pc' = "render"
  /\ UNCHANGED <<now, srcFiles, outFiles, force, postsName, inDirFiles, res,
                 pendingRm, result, errored, pendingWrite, pendingReuse, posts,
                 hist, dIn, dOut, lostStats>>

\* a render task whose failure ends the fan-out at once
RenderFailFast(md) ==
  /\ pc = "render"
  /\ md \in pendingRender
  /\ LET processed == processMd(md, ReadFile(md))
     IN /\ errored' = (errored \/ processed.kind = "throw")
        /\ result' = IF processed.kind = "value"
                     THEN Append(result, processed.value) ELSE result
        /\ pendingRender' = IF processed.kind = "throw" THEN {}
                            ELSE pendingRender \ {md}
        /\ hist' = [hist EXCEPT
                      !.calls = Put(@, md, IF md \in DOMAIN @ THEN @[md] + 1 ELSE 1),
                      !.reported = IF processed.kind = "throw"
                                   THEN @ \cup {md} ELSE @]
  /\ UNCHANGED <<now, srcFiles, outFiles, pc, force, postsName, inDirFiles,
                 res, pendingRm, pendingWrite, pendingReuse, posts, dIn, dOut,
                 lostStats>>

\* lines 123-131: one task of the render fan-out runs processMd and its catch
Render(md) ==
  /\ pc = "render"
  /\ md \in pendingRender
  /\ LET processed == processMd(md, ReadFile(md))
     IN /\ errored' = (errored \/ processed.kind = "throw")
        /\ result' = IF processed.kind = "value"
                     THEN Append(result, processed.value) ELSE result
        /\ hist' = [hist EXCEPT
                      !.calls = Put(@, md, IF md \in DOMAIN @ THEN @[md] + 1 ELSE 1),
                      !.reported = IF processed.kind = "throw"
                                   THEN @ \cup {md} ELSE @]
  /\ pendingRender' = pendingRender \ {md}
  /\ UNCHANGED <<now, srcFiles, outFiles, pc, force, postsName, inDirFiles,
                 res, pendingRm, pendingWrite, pendingReuse, posts, dIn, dOut,
                 lostStats>>

\* a line 133 that never returns
ErroredIgnored(e) == FALSE

\* line 133: if (errored) return
ErroredAbort(e) == e

\* a decision taken without waiting for the render tasks still in flight
DecideEarly ==
  /\ pc = "render"
  /\ IF ErroredAbort(errored)
     THEN /\ pc' = "aborted"
          /\ hist' = [hist EXCEPT !.abort = "render"]
          /\ pendingWrite' = {}
     ELSE /\ pc' = "write"
          /\ hist' = hist
          /\ pendingWrite' = Range(result)
  /\ UNCHANGED <<now, srcFiles, outFiles, force, postsName, inDirFiles, res,
                 pendingRm, pendingRender, result, errored, pendingReuse, posts,
                 dIn, dOut, lostStats>>

\* lines 133-139: every render task has finished; abort, or start the writes
Decide ==
  /\ pc = "render"
  /\ pendingRender = {}
  /\ IF ErroredAbort(errored)
     THEN /\ pc' = "aborted"
          /\ hist' = [hist EXCEPT !.abort = "render"]
          /\ pendingWrite' = {}
     ELSE /\ pc' = "write"
          /\ hist' = hist
          /\ pendingWrite' = Range(result)
  /\ UNCHANGED <<now, srcFiles, outFiles, force, postsName, inDirFiles, res,
                 pendingRm, pendingRender, result, errored, pendingReuse, posts,
                 dIn, dOut, lostStats>>

\* lines 139-144: one fs.writeFile of a per-post output
WritePost(val) ==
  /\ pc = "write"
  /\ val \in pendingWrite
  /\ outFiles' = WriteFile(outFiles, val.name, JSONStringify(val))
  /\ pendingWrite' = pendingWrite \ {val}
  /\ hist' = [hist EXCEPT !.wrote = @ \cup {val.name}]
  /\ UNCHANGED <<now, srcFiles, pc, force, postsName, inDirFiles, res,
                 pendingRm, pendingRender, result, errored, pendingReuse, posts,
                 dIn, dOut, lostStats>>

\* a reuse fan-out that reads the Case 1 outputs whatever force says
BeginReuseAlways ==
  /\ pc = "write"
  /\ pendingWrite = {}
  /\ posts' = generatePostsjson(result)
  /\ pendingReuse' = Range(res.case1)
  /\ pc' = "reuse"
  /\ UNCHANGED <<now, srcFiles, outFiles, force, postsName, inDirFiles, res,
                 pendingRm, pendingRender, result, errored, pendingWrite, hist,
                 dIn, dOut, lostStats>>

\* lines 146-147: the writes have finished; posts starts from the rendered
\* records and the reuse fan-out starts
BeginReuse ==
  /\ pc = "write"
  /\ pendingWrite = {}
  /\ posts' = generatePostsjson(result)
  /\ pendingReuse' = IF force THEN {} ELSE Range(res.case1)
  /\ pc' = "reuse"
  /\ UNCHANGED <<now, srcFiles, outFiles, force, postsName, inDirFiles, res,
                 pendingRm, pendingRender, result, errored, pendingWrite, hist,
                 dIn, dOut, lostStats>>

\* lines 147-150: one task of the reuse fan-out reads and parses an output
Reuse(entry) ==
  /\ pc = "reuse"
  /\ entry \in pendingReuse
  /\ LET content == outFiles[entry.processedFile.name].json
     IN posts' = posts \o generatePostsjson(<<JSONParse(content)>>)
  /\ pendingReuse' = pendingReuse \ {entry}
  /\ hist' = [hist EXCEPT !.read = @ \cup {entry.processedFile.name}]
  /\ UNCHANGED <<now, srcFiles, outFiles, pc, force, postsName, inDirFiles,
                 res, pendingRm, pendingRender, result, errored, pendingWrite,
                 dIn, dOut, lostStats>>

\* lines 152-164: the reads have finished; sort and write the index
WriteIndex ==
  /\ pc = "reuse"
  /\ pendingReuse = {}
  /\ posts' = SortPosts(posts)
  /\ outFiles' = WriteFile(outFiles, postsName, JSONStringifyArray(posts'))
  /\ pc' = "done"
  /\ hist' = [hist EXCEPT !.indexWritten = TRUE]
  /\ UNCHANGED <<now, srcFiles, force, postsName, inDirFiles, res, pendingRm,
                 pendingRender, result, errored, pendingWrite, pendingReuse,
                 dIn, dOut, lostStats>>

Next ==
  \/ Tick
  \/ \E p \in SrcPaths, body \in Bodies : EditSource(p, body)
  \/ \E p \in SrcPaths : DeleteSource(p)
  \/ \E f \in BOOLEAN : \E files \in Perms(DOMAIN srcFiles) : StartBuild(f, files)
  \/ \E po \in Perms(OutDirFiles(postsName)), so \in Perms(Range(inDirFiles)) :
       RunDiff(po, so)
  \/ StatRejects
  \/ \E path \in pendingRm : RmDone(path)
  \/ \E path \in pendingRm : RmFailed(path)
  \/ BeginRender
  \/ \E md \in pendingRender : Render(md)
  \/ Decide
  \/ \E val \in pendingWrite : WritePost(val)
  \/ BeginReuse
  \/ \E entry \in pendingReuse : Reuse(entry)
  \/ WriteIndex

Spec == Init /\ [][Next]_vars

-----------------------------------------------------------------------------
(* SpecStale: the build started on an output directory left by earlier runs *)

\* the record an earlier run rendered from a source c.md that is gone since
StaleRecord ==
  [content |-> "html", name |-> <<"c">>,
   metadata |-> [writtenDate |-> ToISOString(1)], unlisted |-> "undefined"]

\* the output directory of that run: c.json and the index that lists c
StaleOutDir ==
  LET c == <<"c">>
  IN (c :> [mtime |-> 0, json |-> JSONStringify(StaleRecord)])
       @@ (DefaultPostsName :>
             [mtime |-> 0,
              json |-> JSONStringifyArray(generatePostsjson(<<StaleRecord>>))])

\* the projects a behaviour of SpecStale starts from: at most MaxSrc of the
\* sources a.md and b.md, the output directory of the earlier run
InitStale ==
  /\ now = 0
  /\ \E S \in SUBSET {SrcA, SrcB} :
       /\ Cardinality(S) <= MaxSrc
       /\ \E b \in [S -> Bodies] :
            srcFiles = [p \in S |-> [mtime |-> 0, body |-> b[p]]]
  /\ outFiles = StaleOutDir
  /\ pc = "idle"
  /\ force = FALSE
  /\ postsName = DefaultPostsName
  /\ inDirFiles = <<>>
  /\ res = EmptyDiff
  /\ pendingRm = {}
  /\ pendingRender = {}
  /\ result = <<>>
  /\ errored = FALSE
  /\ pendingWrite = {}
  /\ pendingReuse = {}
  /\ posts = <<>>
  /\ hist = NoHist
  /\ dIn = [processeds |-> <<>>, originals |-> <<>>]
  /\ dOut = [called |-> FALSE, value |-> EmptyDiff]
  /\ lostStats = <<>>

SpecStale == InitStale /\ [][Next]_vars

-----------------------------------------------------------------------------
(* Properties of the build *)

\* the render fan-out of the running build is over
AfterRender ==
  \/ pc \in {"write", "reuse", "done"}
  \/ pc = "aborted" /\ hist.abort = "render"

\* the entries of the aggregate index on disk
IndexEntries == outFiles[postsName].json.array

IndexNames == {IndexEntries[i].name : i \in 1..Len(IndexEntries)}

OriginalFiles(list) == {list[i].originalFile : i \in 1..Len(list)}

\* the render of a source fails
Throws(p) == processMd(p, ReadFile(p)).kind = "throw"

\* C3: once the render of a source of the render set has failed, the build
\* writes no per-post output (neither that of a render that succeeded) and no
\* index, and it ends aborted with every render finished: the output
\* directory then holds what it held at the start, less the deleted orphans.
C3_RenderFailureWritesNothing ==
  errored =>
    /\ pc \in {"render", "aborted", "idle"}
    /\ hist.wrote = {}
    /\ ~hist.indexWritten
    /\ outFiles = Remove(hist.outAtStart, hist.deleted)
    /\ pc # "render" => pendingRender = {} /\ hist.abort = "render"

\* a build aborted on a render failure in which another render succeeded
C3_Witness ==
  /\ pc = "aborted" /\ errored /\ hist.abort = "render"
  /\ result # <<>>

\* C4: when the name check reports a path or the duplicate check reports a
\* group, the build ends before diff, deletion, render and write, and the
\* output directory (index included) is what it was before the run.
C4_ValidationFailureChangesNothing ==
  (hist.builds > 0 /\ (Len(hist.nameCheck) # 0 \/ hist.dupCheck.defined)) =>
    /\ pc \in {"aborted", "idle"}
    /\ hist.abort \in {"names", "dups"}
    /\ res = EmptyDiff
    /\ hist.deleted = {} /\ ~hist.rmFailed
    /\ hist.calls = <<>>
    /\ hist.wrote = {} /\ ~hist.indexWritten
    /\ outFiles = hist.outAtStart

\* a build aborted by the duplicate check while the output directory holds
\* the outputs and the index of an earlier build
C4_Witness ==
  /\ pc = "aborted" /\ hist.abort = "dups"
  /\ postsName \in DOMAIN outFiles
  /\ DOMAIN outFiles # {postsName}

\* C5 as stated: a build that follows a successful build with no source
\* change in between, force unset, renders no source and writes the same index.
C5_RepeatRendersNothing ==
  (hist.repeatRun /\ AfterRender) =>
    /\ hist.calls = <<>>
    /\ pc = "done" => IndexEntries = hist.prevIndex

\* the sources a repeated build still hands to the renderer: drafts, a source
\* named like the index, and sources whose output has their own mtime
StillRendered ==
  {p \in DOMAIN srcFiles :
     \/ srcFiles[p].body.draft
     \/ getName(p) = postsName
     \/ /\ getName(p) \in DOMAIN outFiles
        /\ hist.outAtStart[getName(p)].mtime = srcFiles[p].mtime}

\* C5 amended: a build that follows a successful build with no source change
\* in between, force unset, hands to the renderer exactly the drafts, the
\* source named like the index and the sources whose output has an mtime equal
\* to their own (so no source whose output is strictly newer), none of these
\* renders fails, and the index it writes has the same entries as the index
\* of the first build.
C5_RepeatRendersOnlyUnsettled ==
  (hist.repeatRun /\ (AfterRender \/ pc = "idle")) =>
    /\ pc # "aborted"
    /\ pc # "idle" => DOMAIN hist.calls = StillRendered
    /\ pc = "done" =>
         /\ Range(IndexEntries) = Range(hist.prevIndex)
         /\ Len(IndexEntries) = Len(hist.prevIndex)

\* a repeated build has completed, it has reused an output and rendered nothing
C5_Witness ==
  /\ hist.repeatRun /\ pc = "done"
  /\ hist.calls = <<>>
  /\ res.case1 # <<>>
  /\ IndexEntries # <<>>

\* C6: the sources handed to the renderer are those of Case 2 and Case 4,
\* and those of Case 1 as well exactly when force is set.
C6_RenderSet ==
  AfterRender =>
    DOMAIN hist.calls =
      OriginalFiles(res.case2) \cup OriginalFiles(res.case4)
        \cup (IF force THEN OriginalFiles(res.case1) ELSE {})

\* a forced build in which every identity is Case 1 has rendered every source
C6_Witness ==
  /\ pc = "done" /\ force
  /\ res.case1 # <<>> /\ res.case2 = <<>> /\ res.case3 = <<>> /\ res.case4 = <<>>
  /\ DOMAIN hist.calls = DOMAIN srcFiles

\* C7: after a build that completes, an identity whose single source was
\* deleted while its output existed has no <identity>.json and no entry in
\* the index.
C7_DeletedSourceLeavesNothing ==
  pc = "done" =>
    \A n \in hist.orphaned : n \notin DOMAIN outFiles /\ n \notin IndexNames

\* the build after the deletion of a source has completed, it has deleted the
\* output, and the index it started from had an entry for the identity
C7_Witness ==
  /\ pc = "done"
  /\ \E n \in hist.orphaned :
       /\ n \in hist.deleted
       /\ \E i \in 1..Len(hist.outAtStart[postsName].json.array) :
            hist.outAtStart[postsName].json.array[i].name = n

\* the sources whose front-matter sets unlisted and that render to a record
UnlistedSources ==
  {p \in DOMAIN srcFiles :
     LET b == ReadFile(p) IN BodyPublished(b) /\ b.unlisted}

\* C8: after a build that completes, a source with unlisted: true was written
\* as <identity>.json if this build rendered it, its output file holds a
\* record flagged unlisted, and the index has no entry for it, whether this
\* build rendered it or reused its output.
C8_UnlistedNotInIndex ==
  pc = "done" =>
    \A p \in UnlistedSources :
      LET n == getName(p)
      IN /\ p \in DOMAIN hist.calls => n \in hist.wrote
         /\ p \notin DOMAIN hist.calls =>
              \E i \in 1..Len(res.case1) : res.case1[i].originalFile = p
         /\ n # postsName =>
              /\ n \in DOMAIN outFiles
              /\ outFiles[n].json.type = "object"
              /\ GetUnlisted(outFiles[n].json.object) = "true"
         /\ n \notin IndexNames

\* a build has completed that reused the output of an unlisted source as
\* Case 1 and listed another post
C8_Witness ==
  /\ pc = "done" /\ ~force
  /\ \E i \in 1..Len(res.case1) : res.case1[i].originalFile \in UnlistedSources
  /\ IndexEntries # <<>>

\* C9 as stated: the failure of the deletion of an orphaned output does not
\* abort the build; a build in which a deletion failed aborts only on a
\* render failure.
C9_RmFailureDoesNotAbort ==
  (hist.rmFailed /\ pc = "aborted") => hist.abort = "render"

\* C10: when the render fan-out is over, every source of the render set has
\* been handed to the renderer exactly once and no other source has, every
\* source whose render fails has been reported, and errored is set exactly
\* when one has failed; a build aborted on a render failure has no render
\* left.
C10_EveryRenderOnce ==
  AfterRender =>
    LET needToProcess ==
          OriginalFiles(res.case2) \cup OriginalFiles(res.case4)
            \cup (IF force THEN OriginalFiles(res.case1) ELSE {})
    IN /\ pendingRender = {}
       /\ \A md \in needToProcess : md \in DOMAIN hist.calls
       /\ \A md \in DOMAIN hist.calls : hist.calls[md] = 1
       /\ hist.reported = {md \in needToProcess : Throws(md)}
       /\ errored <=> hist.reported # {}

\* a build aborted after two renders have failed, both reported
C10_Witness ==
  /\ pc = "aborted" /\ hist.abort = "render"
  /\ Cardinality(hist.reported) = 2

-----------------------------------------------------------------------------
(* SpecDiff: diff applied to every input within the bounds *)

DiffOutPaths == {Json(<<"a">>), Json(<<"c">>), Json(<<"x","-","[","a","]">>)}

DiffSrcPaths == {SrcA, SrcB, SrcXA}

\* the stat results of the files of P, in every order of completion and with
\* every mtime
StatSeqs(P) ==
  UNION {{[i \in 1..Len(o) |-> [path |-> o[i], mtime |-> t[i]]] :
            t \in [1..Len(o) -> 0..MaxTime]} : o \in Orders(P)}

InitBuildIdle ==
  /\ now = 0
  /\ srcFiles = <<>>
  /\ outFiles = <<>>
  /\ pc = "idle"
  /\ force = FALSE
  /\ postsName = DefaultPostsName
  /\ inDirFiles = <<>>
  /\ res = EmptyDiff
  /\ pendingRm = {}
  /\ pendingRender = {}
  /\ result = <<>>
  /\ errored = FALSE
  /\ pendingWrite = {}
  /\ pendingReuse = {}
  /\ posts = <<>>
  /\ hist = NoHist
  /\ lostStats = <<>>

InitDiff ==
  /\ InitBuildIdle
  /\ dIn \in [processeds : StatSeqs(DiffOutPaths), originals : StatSeqs(DiffSrcPaths)]
  /\ dOut = [called |-> FALSE, value |-> EmptyDiff]

DiffCall ==
  /\ ~dOut.called
  /\ dOut' = [called |-> TRUE, value |-> diff(dIn.processeds, dIn.originals)]
  /\ UNCHANGED <<dIn, buildVars>>

NextDiff == DiffCall

SpecDiff == InitDiff /\ [][NextDiff]_vars

\* the identities of the files of a stat sequence
Identities(stats) == {getName(stats[i].path) : i \in 1..Len(stats)}

\* no two files of the sequence resolve to the same identity
NoDuplicate(stats) ==
  \A i, j \in 1..Len(stats) :
    getName(stats[i].path) = getName(stats[j].path) => i = j

\* how many entries of a case list carry the identity
Occurrences(list, name) == Cardinality({i \in 1..Len(list) : list[i].name = name})

CaseNames(list) == {list[i].name : i \in 1..Len(list)}

\* C1: diff partitions the union of the identities of both sides: every
\* identity of the union is in exactly one entry of exactly one of case1..case4,
\* and no case holds any other identity.
C1_DiffPartitions ==
  dOut.called =>
    LET d == dOut.value
        all == Identities(dIn.processeds) \cup Identities(dIn.originals)
    IN /\ \A n \in all :
            Occurrences(d.case1, n) + Occurrences(d.case2, n)
              + Occurrences(d.case3, n) + Occurrences(d.case4, n) = 1
       /\ CaseNames(d.case1) \cup CaseNames(d.case2)
            \cup CaseNames(d.case3) \cup CaseNames(d.case4) = all

\* diff has run on two sides without duplicates and three of the cases are
\* inhabited
C1_Witness ==
  /\ dOut.called
  /\ NoDuplicate(dIn.processeds) /\ NoDuplicate(dIn.originals)
  /\ dOut.value.case1 # <<>> /\ dOut.value.case3 # <<>> /\ dOut.value.case4 # <<>>

\* the pairs (output, source) of one identity with exactly equal mtime, on
\* sides without duplicates
EqualPairs ==
  IF NoDuplicate(dIn.processeds) /\ NoDuplicate(dIn.originals)
  THEN {pr \in (1..Len(dIn.processeds)) \X (1..Len(dIn.originals)) :
          /\ getName(dIn.processeds[pr[1]].path) = getName(dIn.originals[pr[2]].path)
          /\ dIn.processeds[pr[1]].mtime = dIn.originals[pr[2]].mtime}
  ELSE {}

\* C2 as stated: an output and a source of the same identity and equal mtime
\* are classified as Case 1.
C2_EqualIsCase1 ==
  dOut.called =>
    \A pr \in EqualPairs :
      getName(dIn.processeds[pr[1]].path) \in CaseNames(dOut.value.case1)

\* C2 amended: an output and a source of the same identity and equal mtime
\* are classified as Case 2 (re-render), with both paths recorded, and not as
\* Case 1.
C2_EqualIsCase2 ==
  dOut.called =>
    \A pr \in EqualPairs :
      LET n == getName(dIn.processeds[pr[1]].path)
      IN /\ n \notin CaseNames(dOut.value.case1)
         /\ \E i \in 1..Len(dOut.value.case2) :
              dOut.value.case2[i] =
                [name |-> n, originalFile |-> dIn.originals[pr[2]].path,
                 processedFile |-> dIn.processeds[pr[1]].path]

\* diff has run on an output and a source of one identity with equal mtime
C2_Witness == dOut.called /\ EqualPairs # {}

-----------------------------------------------------------------------------
(* Properties of the build, continued *)

\* the sources without front-matter that the running build has rendered
NoFmRendered ==
  IF pc = "idle" THEN {}
  ELSE {md \in DOMAIN hist.calls :
          ReadFile(md) # NoFile /\ ~ReadFile(md).hasFm}

\* C11 as stated: after a build aborted on a source without front-matter the
\* output directory holds the files it held before the run, unchanged.
C11_NoFmLeavesDirUntouched ==
  (pc = "aborted" /\ NoFmRendered # {}) => outFiles = hist.outAtStart

\* What the code does in the case of C11: a source of the render set without
\* front-matter makes its render fail and the build abort; the run writes and
\* modifies no output file, but the orphaned (Case 3) outputs were deleted
\* before the renders: the output directory is the one before the run less
\* those outputs.
C11_NoFmAbortsAfterDeletion ==
  NoFmRendered # {} =>
    /\ pc \in {"render", "aborted"}
    /\ errored
    /\ NoFmRendered \subseteq hist.reported
    /\ hist.wrote = {} /\ ~hist.indexWritten
    /\ hist.deleted = {res.case3[i].name : i \in 1..Len(res.case3)}
    /\ outFiles = Remove(hist.outAtStart, hist.deleted)
    /\ pc = "aborted" => hist.abort = "render" /\ pendingRender = {}

\* a build aborted on a source without front-matter after it deleted an orphan
C11_Witness ==
  /\ pc = "aborted" /\ hist.abort = "render"
  /\ NoFmRendered # {}
  /\ hist.deleted # {}
  /\ outFiles # hist.outAtStart

\* the instant of the written-date of an index entry or of a record
DateOf(e) == NewDate(e.metadata.writtenDate)

\* C12: in the index written by a completed build an entry whose written-date
\* is strictly later than another's comes earlier in the list; entries with
\* equal dates are accepted in either order.
C12_IndexDescending ==
  pc = "done" =>
    \A i, j \in 1..Len(IndexEntries) :
      DateOf(IndexEntries[i]) > DateOf(IndexEntries[j]) => i < j

\* a completed build whose renders finished in ascending order of date and
\* whose index lists the later post first
C12_Witness ==
  /\ pc = "done"
  /\ Len(result) = 2 /\ Len(IndexEntries) = 2
  /\ DateOf(result[1]) < DateOf(result[2])
  /\ IndexEntries[1].name = result[2].name
  /\ IndexEntries[2].name = result[1].name

\* C13 as stated: a build whose sources include one that resolves to the
\* name of the index file reports it as an invalid name and aborts before any
\* render and any change of the file system, so no per-post output is ever
\* written to the path of the index.
C13_IndexNameRejected ==
  (\E i \in 1..Len(inDirFiles) : getNameOptional(inDirFiles[i]) = Some(postsName)) =>
    /\ pc \in {"aborted", "idle"}
    /\ hist.abort = "names"
    /\ hist.calls = <<>>
    /\ postsName \notin hist.wrote

-----------------------------------------------------------------------------
(* SpecDup: checkDuplicates applied to every list of resolving paths *)

\* the longest list of paths handed to checkDuplicates
MaxDupLen == 4

SrcSubA == Md("in/sub", <<"a">>)
SrcYB == Md("in", <<"y", "-", "[", "b", "]">>)

SrcProto == Md("in", ProtoKey)
SrcXProto == Md("in", <<"x", "-", "[">> \o ProtoKey \o <<"]">>)

\* paths that all resolve: a.md, x-[a].md and sub/a.md to a; b.md and
\* y-[b].md to b; posts.md to posts; __proto__.md and x-[__proto__].md to
\* __proto__
DupPaths == {SrcA, SrcXA, SrcSubA, SrcB, SrcYB, SrcPosts, SrcProto, SrcXProto}

InitDup ==
  /\ InitBuildIdle
  /\ \E S \in SUBSET DupPaths :
       /\ Cardinality(S) <= MaxDupLen
       /\ \E o \in Perms(S) : dIn = [files |-> o]
  /\ dOut = [called |-> FALSE, value |-> Undefined]

DupCall ==
  /\ ~dOut.called
  /\ dOut' = [called |-> TRUE, value |-> checkDuplicates(dIn.files)]
  /\ UNCHANGED <<dIn, buildVars>>

NextDup == DupCall

SpecDup == InitDup /\ [][NextDup]_vars

\* the paths of a list that resolve to the identity n
PathsOf(files, n) == {files[i] : i \in {k \in 1..Len(files) : getName(files[k]) = n}}

\* the identities more than one path of a list resolves to
DuplicatedNames(files) ==
  {n \in {getName(files[i]) : i \in 1..Len(files)} :
     Cardinality(PathsOf(files, n)) > 1}

\* C14 as stated: for a list of paths that all resolve, checkDuplicates
\* returns nothing when every identity has one path, and otherwise a mapping
\* whose keys are exactly the identities with more than one path, each mapped
\* to all the paths that resolve to it, each path once.
C14_DuplicatesExact ==
  dOut.called =>
    LET files == dIn.files
        dups == DuplicatedNames(files)
    IN IF dups = {} THEN ~dOut.value.defined
       ELSE /\ dOut.value.defined
            /\ DOMAIN dOut.value.value = dups
            /\ \A n \in dups :
                 /\ Range(dOut.value.value[n]) = PathsOf(files, n)
                 /\ Len(dOut.value.value[n]) = Cardinality(PathsOf(files, n))

\* what the code does: the same with the identity __proto__ left out of the
\* keys of the result, which is still returned when __proto__ is the only
\* duplicated identity
C14_DuplicatesExceptProto ==
  dOut.called =>
    LET files == dIn.files
        dups == DuplicatedNames(files)
    IN IF dups = {} THEN ~dOut.value.defined
       ELSE /\ dOut.value.defined
            /\ DOMAIN dOut.value.value = dups \ {ProtoKey}
            /\ \A n \in dups \ {ProtoKey} :
                 /\ Range(dOut.value.value[n]) = PathsOf(files, n)
                 /\ Len(dOut.value.value[n]) = Cardinality(PathsOf(files, n))

\* checkDuplicates has reported two groups at once, a.md with x-[a].md under
\* a among them
C14_Witness ==
  /\ dOut.called /\ dOut.value.defined
  /\ Cardinality(DOMAIN dOut.value.value) = 2
  /\ Range(dOut.value.value[<<"a">>]) = {SrcA, SrcXA}

\* the sources the build has rendered to null while an output of their
\* identity existed at the start of the build
DraftsWithOutput ==
  IF pc = "idle" THEN {}
  ELSE {p \in DOMAIN hist.calls :
          /\ processMd(p, ReadFile(p)).kind = "null"
          /\ getName(p) # postsName
          /\ getName(p) \in DOMAIN hist.outAtStart}

\* C15 as stated: when the render of a source that has an output returns
\* null, the build deletes that output: after the build the output directory
\* has no <identity>.json for it.
C15_DraftOutputDeleted ==
  pc = "done" => \A p \in DraftsWithOutput : getName(p) \notin DOMAIN outFiles

\* the sources handed to the renderer by the running build whose
\* front-matter is valid and sets draft
DraftsRendered ==
  IF pc = "idle" THEN {}
  ELSE {p \in DOMAIN hist.calls :
          LET b == ReadFile(p)
          IN b # NoFile /\ b.hasFm /\ b.valid /\ b.draft}

\* the sources handed to the renderer on which processMd throws
BrokenRendered ==
  IF pc = "idle" THEN {}
  ELSE {p \in DOMAIN hist.calls : BodyFails(ReadFile(p))}

\* the sources handed to the renderer that are published
PublishedRendered ==
  IF pc = "idle" THEN {}
  ELSE {p \in DOMAIN hist.calls : BodyPublished(ReadFile(p))}

\* C16: a draft source is no error: it is not reported, the build writes no
\* <identity>.json and no index entry for it, a build aborts on its renders
\* only if another source is broken, and a completed build has written the
\* outputs of the other rendered sources and the index.
C16_DraftIsSkipped ==
  /\ \A p \in DraftsRendered :
       /\ p \notin hist.reported
       /\ getName(p) \notin hist.wrote
       /\ \A i \in 1..Len(result) : result[i].name # getName(p)
       /\ pc = "done" => getName(p) \notin IndexNames
  /\ (pc = "aborted" /\ hist.abort = "render") => BrokenRendered # {}
  /\ pc = "done" =>
       /\ hist.indexWritten
       /\ \A p \in PublishedRendered : getName(p) \in hist.wrote

\* a completed build that rendered a draft and a published source, wrote the
\* output of the latter and listed it
C16_Witness ==
  /\ pc = "done"
  /\ DraftsRendered # {}
  /\ \E p \in PublishedRendered :
       /\ getName(p) \in hist.wrote
       /\ getName(p) \in IndexNames

\* the exit status of the process once newMarkdownProcessor has ended.  The
\* function only returns on a name, duplicate or render failure (lines 96,
\* 105, 133) and src/index.ts never sets an exit code, so the process ends
\* with 0; a rejected rmAll or a rejected fs.stat of diff leaves an unhandled
\* rejection, which ends the process with 1 or, on runtimes that only warn,
\* with 0
ExitCodes ==
  IF pc = "aborted" /\ hist.abort \in {"rm", "stat"} THEN {0, 1} ELSE {0}

\* the paths for which the run has printed a diagnostic
Diagnosed ==
  Range(hist.nameCheck)
    \cup (IF hist.dupCheck.defined
          THEN UNION {Range(hist.dupCheck.value[n]) : n \in DOMAIN hist.dupCheck.value}
          ELSE {})
    \cup hist.reported

\* C17 as stated: a run in which the name check, the duplicate check or a
\* render fails ends with a non-zero exit status and has printed a diagnostic
\* for every offending file.
C17_FailureExitsNonZero ==
  (pc = "aborted" /\ hist.abort \in {"names", "dups", "render"}) =>
    /\ 0 \notin ExitCodes
    /\ Diagnosed # {}

-----------------------------------------------------------------------------
(* Properties of diff, continued (SpecDiff) *)

\* the pairs (output, source) of one identity, on sides without duplicates
BothSides ==
  IF NoDuplicate(dIn.processeds) /\ NoDuplicate(dIn.originals)
  THEN {pr \in (1..Len(dIn.processeds)) \X (1..Len(dIn.originals)) :
          getName(dIn.processeds[pr[1]].path) = getName(dIn.originals[pr[2]].path)}
  ELSE {}

\* the entry diff records for a pair of BothSides
PairEntry(pr) ==
  [name |-> getName(dIn.processeds[pr[1]].path),
   originalFile |-> dIn.originals[pr[2]].path,
   processedFile |-> dIn.processeds[pr[1]].path]

\* C18: an identity on both sides is in Case 1 when the mtime of its output
\* is strictly later than that of its source and in Case 2 when it is
\* strictly earlier; the entry holds the source path and the output path.
C18_StrictOrderDecides ==
  dOut.called =>
    \A pr \in BothSides :
      LET o == dIn.processeds[pr[1]].mtime
          s == dIn.originals[pr[2]].mtime
      IN /\ o > s => /\ PairEntry(pr) \in Range(dOut.value.case1)
                     /\ PairEntry(pr).name \notin CaseNames(dOut.value.case2)
         /\ o < s => /\ PairEntry(pr) \in Range(dOut.value.case2)
                     /\ PairEntry(pr).name \notin CaseNames(dOut.value.case1)

\* diff has run on an identity whose output is strictly earlier than its
\* source and has recorded both paths in Case 2
C18_Witness ==
  /\ dOut.called
  /\ \E pr \in BothSides :
       /\ dIn.processeds[pr[1]].mtime < dIn.originals[pr[2]].mtime
       /\ PairEntry(pr) \in Range(dOut.value.case2)

\* diff has run on an identity whose output is strictly later than its source
\* and has recorded both paths in Case 1
C18_WitnessNewer ==
  /\ dOut.called
  /\ \E pr \in BothSides :
       /\ dIn.processeds[pr[1]].mtime > dIn.originals[pr[2]].mtime
       /\ PairEntry(pr) \in Range(dOut.value.case1)

\* the paths of a stat sequence that resolve to the identity n
StatPathsOf(stats, n) ==
  {stats[i].path : i \in {k \in 1..Len(stats) : getName(stats[k].path) = n}}

\* C19: the identities of Case 3 are exactly those present only among the
\* outputs and those of Case 4 exactly those present only among the sources,
\* each entry holding a path of its identity; without outputs every source
\* identity is Case 4, without sources every output identity is Case 3, and
\* with both sides empty diff returns four empty cases.
C19_OneSidedCases ==
  dOut.called =>
    LET outs == Identities(dIn.processeds)
        srcs == Identities(dIn.originals)
        d == dOut.value
    IN /\ CaseNames(d.case3) = outs \ srcs
       /\ CaseNames(d.case4) = srcs \ outs
       /\ \A i \in 1..Len(d.case3) :
            d.case3[i].processedFile \in StatPathsOf(dIn.processeds, d.case3[i].name)
       /\ \A i \in 1..Len(d.case4) :
            d.case4[i].originalFile \in StatPathsOf(dIn.originals, d.case4[i].name)
       /\ dIn.processeds = <<>> =>
            d.case1 = <<>> /\ d.case2 = <<>> /\ d.case3 = <<>>
              /\ CaseNames(d.case4) = srcs
       /\ dIn.originals = <<>> =>
            d.case1 = <<>> /\ d.case2 = <<>> /\ d.case4 = <<>>
              /\ CaseNames(d.case3) = outs
       /\ (dIn.processeds = <<>> /\ dIn.originals = <<>>) => d = EmptyDiff

\* diff has run without any output on two sources and put both in Case 4
C19_Witness ==
  /\ dOut.called
  /\ dIn.processeds = <<>>
  /\ Len(dOut.value.case4) = 2
  /\ dOut.value.case3 = <<>>

\* diff has run without any source on two outputs and put both in Case 3
C19_WitnessNoSource ==
  /\ dOut.called
  /\ dIn.originals = <<>>
  /\ Len(dOut.value.case3) = 2

\* diff has run on two empty sides
C19_WitnessEmpty ==
  dOut.called /\ dIn.processeds = <<>> /\ dIn.originals = <<>>

-----------------------------------------------------------------------------
(* Properties of the build: reuse *)

\* the index entry generatePostsjson makes of a parsed output
EntryOf(record) == Omit(record, {"content"})

\* C20: with force unset no Case 1 source is handed to the renderer and its
\* output file is not rewritten; when the build completes, exactly the Case 1
\* outputs have been read and the record parsed from each is in the index,
\* less its content, unless it is unlisted.  With force set no output is read.
C20_ReuseCase1 ==
  /\ force => hist.read = {}
  /\ ~force =>
       /\ hist.read \subseteq CaseNames(res.case1)
       /\ \A i \in 1..Len(res.case1) :
            LET e == res.case1[i]
            IN /\ e.originalFile \notin DOMAIN hist.calls
               /\ e.name \notin hist.wrote
               /\ outFiles[e.name] = hist.outAtStart[e.name]
               /\ pc = "done" =>
                    LET record == JSONParse(outFiles[e.name].json)
                    IN /\ e.name \in hist.read
                       /\ ~Truthy(GetUnlisted(record)) =>
                            EntryOf(record) \in Range(IndexEntries)

\* a completed build without force has read the output of a Case 1 source and
\* listed its record while it rendered another source
C20_Witness ==
  /\ pc = "done" /\ ~force
  /\ hist.calls # <<>>
  /\ \E i \in 1..Len(res.case1) :
       /\ res.case1[i].name \in hist.read
       /\ EntryOf(JSONParse(outFiles[res.case1[i].name].json)) \in Range(IndexEntries)

\* a completed forced build with a Case 1 source has read no output
C20_WitnessForce ==
  /\ pc = "done" /\ force
  /\ res.case1 # <<>>
  /\ hist.read = {}

-----------------------------------------------------------------------------
(* SpecGen: generatePostsjson applied to every list of records *)

\* the longest list of records handed to generatePostsjson
MaxGenLen == 3

\* records as processMd returns them (unlisted true or undefined) and as
\* JSON.parse reads them from an output file (unlisted true or absent)
GenRecords ==
  {[content |-> "html", name |-> n, metadata |-> [writtenDate |-> ToISOString(d)],
    unlisted |-> u] : n \in {<<"a">>, <<"b">>}, d \in Dates, u \in {"true", "undefined"}}
  \cup
  {[content |-> "html", name |-> n, metadata |-> [writtenDate |-> ToISOString(d)]] :
     n \in {<<"a">>, <<"b">>}, d \in Dates}

InitGen ==
  /\ InitBuildIdle
  /\ \E k \in 0..MaxGenLen : \E l \in [1..k -> GenRecords] : dIn = [result |-> l]
  /\ dOut = [called |-> FALSE, value |-> <<>>]

GenCall ==
  /\ ~dOut.called
  /\ dOut' = [called |-> TRUE, value |-> generatePostsjson(dIn.result)]
  /\ UNCHANGED <<dIn, buildVars>>

NextGen == GenCall

SpecGen == InitGen /\ [][NextGen]_vars

\* the positions of the records of a list that are not flagged unlisted
ListedAt(list) == {i \in 1..Len(list) : GetUnlisted(list[i]) # "true"}

\* the position in the input of the k-th record that is not flagged unlisted
NthListed(list, k) ==
  CHOOSE i \in ListedAt(list) : Cardinality({j \in ListedAt(list) : j <= i}) = k

\* C21: generatePostsjson returns one entry for each input record that is
\* not flagged unlisted, in input order; an entry has the name and the
\* metadata of its record and no content field; the empty list gives the
\* empty list.
C21_IndexEntries ==
  dOut.called =>
    LET in == dIn.result
        out == dOut.value
    IN /\ Len(out) = Cardinality(ListedAt(in))
       /\ \A k \in 1..Len(out) :
            LET r == in[NthListed(in, k)]
            IN /\ out[k].name = r.name
               /\ out[k].metadata = r.metadata
               /\ "content" \notin DOMAIN out[k]
               /\ DOMAIN out[k] = DOMAIN r \ {"content"}
       /\ in = <<>> => out = <<>>

\* generatePostsjson has dropped the unlisted record in the middle of three
\* and kept the two others in their order
C21_Witness ==
  /\ dOut.called
  /\ Len(dIn.result) = 3
  /\ GetUnlisted(dIn.result[2]) = "true"
  /\ Len(dOut.value) = 2
  /\ dOut.value[1].name = dIn.result[1].name
  /\ dOut.value[2].name = dIn.result[3].name
  /\ dOut.value[1].name # dOut.value[2].name

\* generatePostsjson has run on the empty list
C21_WitnessEmpty == dOut.called /\ dIn.result = <<>> /\ dOut.value = <<>>

-----------------------------------------------------------------------------
(* SpecName: getNameOptional and getName applied to every base name *)

\* the longest base name handed to getNameOptional
MaxNameLen == 6

\* characters of base names: two of the class, the brackets, one outside
NameChars == {"a", "-", "[", "]", " "}

InitName ==
  /\ InitBuildIdle
  /\ \E k \in 0..MaxNameLen : \E s \in [1..k -> NameChars] :
       dIn = [filePath |-> Md("in", s)]
  /\ dOut = [called |-> FALSE, value |-> Undefined, name |-> Undefined]

NameCall ==
  /\ ~dOut.called
  /\ dOut' = [called |-> TRUE, value |-> getNameOptional(dIn.filePath),
              name |-> getName(dIn.filePath)]
  /\ UNCHANGED <<dIn, buildVars>>

NextName == NameCall

SpecName == InitName /\ [][NextName]_vars

\* the bracketed tokens of s: the pairs of positions of a "[" and a "]" with
\* one or more characters of the class, and nothing else, between them
Tokens(s) ==
  {t \in (1..Len(s)) \X (1..Len(s)) :
     /\ s[t[1]] = "[" /\ s[t[2]] = "]"
     /\ t[2] > t[1] + 1
     /\ \A k \in (t[1] + 1)..(t[2] - 1) : s[k] \in IdChars}

\* C22: getNameOptional returns the base name when it matches the identity
\* grammar; otherwise the inner text of the bracketed token when the base has
\* exactly one; otherwise (none, or more than one) nothing, and getName fails.
C22_Resolution ==
  dOut.called =>
    LET base == dIn.filePath.name
        grammar == base # <<>> /\ \A i \in 1..Len(base) : base[i] \in IdChars
    IN /\ grammar => dOut.value = Some(base)
       /\ (~grammar /\ Cardinality(Tokens(base)) = 1) =>
            LET t == CHOOSE t \in Tokens(base) : TRUE
            IN dOut.value = Some(SubSeq(base, t[1] + 1, t[2] - 1))
       /\ (~grammar /\ Cardinality(Tokens(base)) # 1) =>
            ~dOut.value.defined /\ dOut.name = Undefined
       /\ dOut.value.defined => dOut.name = dOut.value.value

\* getNameOptional has refused a base name with two bracketed tokens
C22_Witness ==
  /\ dOut.called
  /\ Cardinality(Tokens(dIn.filePath.name)) = 2
  /\ ~dOut.value.defined

\* getNameOptional has returned the inner text of the only token of a base
\* name that has other characters around it
C22_WitnessOne ==
  /\ dOut.called
  /\ dIn.filePath.name = <<"a", " ", "[", "a", "-", "]">>
  /\ dOut.value = Some(<<"a", "-">>)

-----------------------------------------------------------------------------
(* SpecCheck: checkFilenames (src/utils.ts) applied to lists of paths *)

\* the longest list of paths handed to checkFilenames
MaxCheckLen == 3

\* a path with two bracketed tokens, which does not resolve
SrcTwo == Md("in", <<"[", "a", "]", "[", "b", "]">>)

CheckPaths == {SrcA, SrcXA, SrcB, SrcPosts, SrcBad, SrcTwo}

\* the banned-name lists: none, the index name, the index name and a
BannedLists == {<<>>, <<DefaultPostsName>>, <<DefaultPostsName, <<"a">>>>}

\* a checkFilenames that ignores the banned names
checkFilenamesUnbanned(files, bannedName) == checkFilenamesRegex(files)

\* checkFilenames (src/utils.ts 181-193): the paths, in input order, whose
\* name does not resolve, is banned, or fails PostNameRegex
RECURSIVE checkFilenames(_, _)
checkFilenames(files, bannedName) ==
  IF files = <<>> THEN <<>>
  ELSE LET path == Head(files)
           name == getNameOptional(path)
           fails == IF ~name.defined THEN <<path>>
                    ELSE IF name.value \in Range(bannedName) THEN <<path>>
                    ELSE IF ~PostNameRegex(name.value) THEN <<path>>
                    ELSE <<>>
       IN fails \o checkFilenames(Tail(files), bannedName)

InitCheck ==
  /\ InitBuildIdle
  /\ \E k \in 0..MaxCheckLen : \E l \in [1..k -> CheckPaths] :
       \E banned \in BannedLists : dIn = [files |-> l, bannedName |-> banned]
  /\ dOut = [called |-> FALSE, value |-> <<>>]

CheckCall ==
  /\ ~dOut.called
  /\ dOut' = [called |-> TRUE, value |-> checkFilenames(dIn.files, dIn.bannedName)]
  /\ UNCHANGED <<dIn, buildVars>>

NextCheck == CheckCall

SpecCheck == InitCheck /\ [][NextCheck]_vars

\* the path p is unacceptable under the banned names
Unacceptable(p, banned) ==
  LET base == p.name
      grammar == base # <<>> /\ \A i \in 1..Len(base) : base[i] \in IdChars
      resolved == IF grammar THEN {base}
                  ELSE IF Cardinality(Tokens(base)) = 1
                  THEN {SubSeq(base, t[1] + 1, t[2] - 1) : t \in Tokens(base)}
                  ELSE {}
  IN \/ resolved = {}
     \/ \E n \in resolved :
          \/ n \in Range(banned)
          \/ ~(n # <<>> /\ \A i \in 1..Len(n) : n[i] \in IdChars)

\* C23: checkFilenames returns exactly the paths, in input order, whose
\* identity does not resolve, is one of the banned names, or does not match
\* the identity grammar; it returns the empty list when every path is
\* acceptable.
C23_CheckFilenames ==
  dOut.called =>
    /\ dOut.value = SelectSeq(dIn.files, LAMBDA p : Unacceptable(p, dIn.bannedName))
    /\ (\A i \in 1..Len(dIn.files) : ~Unacceptable(dIn.files[i], dIn.bannedName))
         => dOut.value = <<>>

\* checkFilenames has flagged the source named like the banned index and a
\* source that does not resolve, in input order, and kept a third
C23_Witness ==
  /\ dOut.called
  /\ dIn.bannedName = <<DefaultPostsName>>
  /\ dIn.files = <<SrcPosts, SrcA, SrcTwo>>
  /\ dOut.value = <<SrcPosts, SrcTwo>>

-----------------------------------------------------------------------------
(* Properties of the build: phases *)

\* the render set of the build, from its diff and its force flag
RenderSet ==
  OriginalFiles(res.case2) \cup OriginalFiles(res.case4)
    \cup (IF force THEN OriginalFiles(res.case1) ELSE {})

\* both checks of the build have passed
ChecksPassed == Len(hist.nameCheck) = 0 /\ ~hist.dupCheck.defined

\* C24: the phases run in the order name check, duplicate check, diff,
\* orphan deletion, render fan-out, write fan-out, index assembly, index
\* write, and a phase has no task started while one of the phase before is
\* unfinished, whatever the order in which the tasks of a phase complete.
C24_PhaseBarriers ==
  /\ res # EmptyDiff => ChecksPassed
  /\ (pendingRm # {} \/ hist.deleted # {}) =>
       ChecksPassed /\ pendingRm \cup {Json(n) : n \in hist.deleted}
                         \subseteq {res.case3[i].processedFile : i \in 1..Len(res.case3)}
  /\ pendingRm # {} =>
       /\ pc = "rm"
       /\ pendingRender = {} /\ hist.calls = <<>>
  /\ (pendingRender # {} \/ hist.calls # <<>>) =>
       /\ pendingRm = {} /\ ~hist.rmFailed
       /\ hist.deleted = CaseNames(res.case3)
       /\ pendingRender \cup DOMAIN hist.calls = RenderSet
  /\ pendingRender # {} =>
       /\ pc = "render"
       /\ pendingWrite = {} /\ hist.wrote = {}
  /\ (pendingWrite # {} \/ hist.wrote # {}) =>
       /\ pendingRender = {} /\ DOMAIN hist.calls = RenderSet
       /\ ~errored
       /\ {v.name : v \in pendingWrite} \cup hist.wrote
            = {result[i].name : i \in 1..Len(result)}
  /\ pendingWrite # {} =>
       /\ pc = "write"
       /\ pendingReuse = {} /\ hist.read = {} /\ posts = <<>>
  /\ (pendingReuse # {} \/ hist.read # {}) =>
       /\ pendingWrite = {}
       /\ hist.wrote = {result[i].name : i \in 1..Len(result)}
       /\ {e.name : e \in pendingReuse} \cup hist.read = CaseNames(res.case1)
  /\ pendingReuse # {} => pc = "reuse" /\ ~hist.indexWritten
  /\ hist.indexWritten =>
       /\ pc \in {"done", "idle"}
       /\ pendingReuse = {}
       /\ hist.wrote = {result[i].name : i \in 1..Len(result)}
       /\ hist.read = IF force THEN {} ELSE CaseNames(res.case1)
       /\ DOMAIN hist.calls = RenderSet
       /\ hist.deleted = CaseNames(res.case3)

\* a build has deleted an orphan and rendered two sources; one of the two
\* writes has completed and the other is in flight
C24_Witness ==
  /\ pc = "write"
  /\ hist.deleted # {}
  /\ Cardinality(DOMAIN hist.calls) = 2
  /\ Cardinality(hist.wrote) = 1
  /\ Cardinality(pendingWrite) = 1

-----------------------------------------------------------------------------
(* Properties of the build: deletion against render and write *)

\* the identities of the sources the build renders or has rendered
RenderedNames == {getName(md) : md \in pendingRender \cup DOMAIN hist.calls}

\* C25: in every build the identities whose output is deleted are none of
\* the identities rendered or written, and an output written by the build is
\* on disk for the rest of the build.
C25_DeletedDisjointFromRendered ==
  /\ (CaseNames(res.case3) \cup hist.deleted) \cap RenderedNames = {}
  /\ hist.deleted \cap hist.wrote = {}
  /\ \A n \in hist.wrote : n \in DOMAIN outFiles

\* a completed build has deleted an orphan and written a rendered output
C25_Witness ==
  /\ pc = "done"
  /\ hist.deleted # {}
  /\ hist.wrote # {}
  /\ RenderedNames # {}

-----------------------------------------------------------------------------
(* Properties of the build: the index file *)

\* the output paths diff has classified
ClassifiedOutputs ==
  {res.case1[i].processedFile : i \in 1..Len(res.case1)}
    \cup {res.case2[i].processedFile : i \in 1..Len(res.case2)}
    \cup {res.case3[i].processedFile : i \in 1..Len(res.case3)}

\* C26: the index file is never among the outputs diff classifies, is never
\* deleted as an orphan and is never read back as a post record, in any build
\* of any sequence of builds.
C26_IndexExcluded ==
  /\ Json(postsName) \notin ClassifiedOutputs
  /\ Json(postsName) \notin pendingRm
  /\ postsName \notin hist.deleted
  /\ postsName \notin hist.read
  /\ \A e \in pendingReuse : e.processedFile # Json(postsName)
  /\ hist.indexWritten => postsName \in DOMAIN outFiles

\* a build that started with the index of an earlier build on disk has
\* classified and reused another output and has completed
C26_Witness ==
  /\ pc = "done"
  /\ postsName \in DOMAIN hist.outAtStart
  /\ ClassifiedOutputs # {}
  /\ hist.read # {}

-----------------------------------------------------------------------------
(* Properties of the build: incremental against full rebuild *)

\* the index entries a build that renders every source makes of the sources
\* on disk: one for each source that renders to a record not flagged unlisted
FullRebuildEntries ==
  {EntryOf(StringifyObject(processMd(p, ReadFile(p)).value)) :
     p \in {q \in DOMAIN srcFiles :
              /\ processMd(q, ReadFile(q)).kind = "value"
              /\ ~ReadFile(q).unlisted}}

\* C27: when every edit leaves the edited source with an mtime not earlier
\* than that of its output, the index written by a completed build has the
\* entries a full rebuild of the same sources writes, with force unset as
\* with force set.  The sources are the same when none was deleted while the
\* build was running.
C27_IncrementalEqualsFull ==
  (pc = "done" /\ lostStats = <<>>) =>
    /\ Range(IndexEntries) = FullRebuildEntries
    /\ Len(IndexEntries) = Cardinality(FullRebuildEntries)

\* after an edit, a build without force has rendered the edited source,
\* reused the output of another and written an index of two entries
C27_Witness ==
  /\ pc = "done" /\ ~force
  /\ hist.edits > 0
  /\ hist.calls # <<>>
  /\ hist.read # {}
  /\ Len(IndexEntries) = 2

-----------------------------------------------------------------------------
(* Properties of the build: index against outputs *)

\* a build has ended, completed or aborted on a render error, and an index is
\* on disk
EndedWithIndex ==
  /\ pc = "done" \/ (pc = "aborted" /\ hist.abort = "render")
  /\ postsName \in DOMAIN outFiles

\* C28 as stated: after a build that completed or aborted on a render error,
\* every entry of the index on disk names an identity whose <identity>.json
\* is on disk.
C28_IndexEntriesHaveOutputs ==
  EndedWithIndex => IndexNames \subseteq DOMAIN outFiles

\* the identities of the per-post output files on disk whose record is not
\* flagged unlisted
ListedOutputs ==
  {n \in DOMAIN outFiles \ {postsName} :
     /\ outFiles[n].json.type = "object"
     /\ ~Truthy(GetUnlisted(JSONParse(outFiles[n].json)))}

\* C29 as stated: after a build that completes, the identities of the index
\* entries are exactly the identities of the per-post output files on disk
\* whose record is not flagged unlisted.
C29_IndexIsListedOutputs ==
  pc = "done" => IndexNames = ListedOutputs

\* the identities of the records of a list, one for each record
NamesOf(list) == [i \in 1..Len(list) |-> list[i].name]

\* no value occurs twice in the sequence
Injective(s) == \A i, j \in 1..Len(s) : s[i] = s[j] => i = j

\* C30: the index written by a build that completes has at most one entry for
\* an identity; the identities this build rendered and the identities whose
\* output it reused are disjoint, and the list of index records has no
\* identity twice while the build collects it.
C30_OneEntryPerIdentity ==
  /\ pc = "done" => Injective(NamesOf(IndexEntries))
  /\ pc \in {"reuse", "done"} =>
       /\ Injective(NamesOf(posts))
       /\ hist.read \cap {getName(md) : md \in DOMAIN hist.calls} = {}
       /\ hist.read \cap hist.wrote = {}

\* a completed build whose index has two entries, one for a record this build
\* rendered and wrote, one for a record it reused
C30_Witness ==
  /\ pc = "done"
  /\ Len(IndexEntries) = 2
  /\ \E i, j \in 1..2 :
       /\ IndexEntries[i].name \in hist.wrote
       /\ IndexEntries[j].name \in hist.read

-----------------------------------------------------------------------------
(* Identity round trip between a source and its output *)

\* what diff can return to a build started on the directories as they stand
\* (lines 109-114 of src/index.ts): one result for each order in which the
\* stats complete
DiffOfNextBuild ==
  {diff([i \in 1..Len(po) |->
           [path |-> po[i], mtime |-> outFiles[po[i].name].mtime]],
        [i \in 1..Len(so) |->
           [path |-> so[i], mtime |-> srcFiles[so[i]].mtime]]) :
     po \in Perms(OutDirFiles(postsName)), so \in Perms(DOMAIN srcFiles)}

\* the next build's diff pairs the source p with the output <n>.json
PairedNext(p, n) ==
  \A d \in DiffOfNextBuild :
    /\ \E e \in Range(d.case1) \cup Range(d.case2) :
         e.name = n /\ e.originalFile = p /\ e.processedFile = Json(n)
    /\ n \notin CaseNames(d.case3)
    /\ n \notin CaseNames(d.case4)

\* C31 as stated: after a build that completes, every source it rendered to a
\* record, of identity n, has its output written as <n>.json, <n>.json
\* resolves to n, and the diff of the next build pairs the two (Case 1 or
\* Case 2): the output is no orphan and the source is not new.
C31_OutputPairsWithSource ==
  pc = "done" =>
    \A p \in PublishedRendered :
      LET n == getName(p)
      IN /\ n \in hist.wrote
         /\ n \in DOMAIN outFiles
         /\ getNameOptional(Json(n)) = Some(n)
         /\ PairedNext(p, n)

\* the same for the sources whose identity is not the name of the index
C31_PairsUnlessIndexName ==
  pc = "done" =>
    \A p \in PublishedRendered :
      LET n == getName(p)
      IN n # postsName =>
           /\ n \in hist.wrote
           /\ n \in DOMAIN outFiles
           /\ getNameOptional(Json(n)) = Some(n)
           /\ PairedNext(p, n)

-----------------------------------------------------------------------------
(* SpecOrder: the build on the sources a.md and b.md alone *)

\* the projects a behaviour of SpecOrder starts from: at most MaxSrc of the
\* sources a.md and b.md, an empty output directory
InitOrder ==
  /\ now = 0
  /\ \E S \in SUBSET {SrcA, SrcB} :
       /\ Cardinality(S) <= MaxSrc
       /\ \E b \in [S -> Bodies] :
            srcFiles = [p \in S |-> [mtime |-> 0, body |-> b[p]]]
  /\ outFiles = <<>>
  /\ pc = "idle"
  /\ force = FALSE
  /\ postsName = DefaultPostsName
  /\ inDirFiles = <<>>
  /\ res = EmptyDiff
  /\ pendingRm = {}
  /\ pendingRender = {}
  /\ result = <<>>
  /\ errored = FALSE
  /\ pendingWrite = {}
  /\ pendingReuse = {}
  /\ posts = <<>>
  /\ hist = NoHist
  /\ dIn = [processeds |-> <<>>, originals |-> <<>>]
  /\ dOut = [called |-> FALSE, value |-> EmptyDiff]
  /\ lostStats = <<>>

SpecOrder == InitOrder /\ [][Next]_vars

\* the source directory at the start of the build: the files it holds and
\* those deleted while the build waited for diff
SourcesAtStart == DOMAIN srcFiles \cup DOMAIN lostStats

\* the sources whose output at the start of the build is strictly newer than
\* they are (Case 1), told from the two directories alone
NewerOutputSources ==
  {p \in SourcesAtStart :
     LET n == getName(p)
     IN /\ n \in DOMAIN hist.outAtStart \ {postsName}
        /\ hist.outAtStart[n].mtime > StatSource(p)}

\* the sources the build has to render, told from the two directories alone
SourcesToRender ==
  IF force THEN SourcesAtStart ELSE SourcesAtStart \ NewerOutputSources

\* the source is published: processMd returns a record for it
Published(p) == BodyPublished(ReadFile(p))

\* the per-post files the build has to write
FilesToWrite == {getName(p) : p \in {q \in SourcesToRender : Published(q)}}

\* the entries the index has to hold: one for each rendered record and each
\* reused output that is not flagged unlisted
EntriesToWrite ==
  {EntryOf(StringifyObject(processMd(p, ReadFile(p)).value)) :
     p \in {q \in SourcesToRender : Published(q) /\ ~ReadFile(q).unlisted}}
  \cup
  (IF force THEN {}
   ELSE {EntryOf(JSONParse(hist.outAtStart[getName(p)].json)) :
           p \in {q \in NewerOutputSources :
                    ~Truthy(GetUnlisted(
                       JSONParse(hist.outAtStart[getName(q)].json)))}})

\* C32: whatever the order in which the stats, the renders and the reads of
\* reused outputs complete, a build that completes has written the per-post
\* files and the index entries that the two directories at its start
\* determine, each file with the record of its source; the index is in
\* descending order of written date, so that two interleavings differ at most
\* in the relative order of entries of equal date.
C32_OrderIndependent ==
  pc = "done" =>
    /\ hist.wrote = FilesToWrite
    /\ \A p \in SourcesToRender :
         (Published(p) /\ getName(p) # postsName) =>
           outFiles[getName(p)].json =
             JSONStringify(processMd(p, ReadFile(p)).value)
    /\ Range(IndexEntries) = EntriesToWrite
    /\ Len(IndexEntries) = Cardinality(EntriesToWrite)
    /\ \A i, j \in 1..Len(IndexEntries) :
         i < j => DateOf(IndexEntries[i]) >= DateOf(IndexEntries[j])

\* a completed build rendered a.md and b.md of equal written date and the
\* index has b before a: the render of b completed first
C32_Witness ==
  /\ pc = "done"
  /\ Len(IndexEntries) = 2
  /\ IndexEntries[1].name = <<"b">> /\ IndexEntries[2].name = <<"a">>
  /\ DateOf(IndexEntries[1]) = DateOf(IndexEntries[2])
  /\ hist.wrote = {<<"a">>, <<"b">>}

\* the same build with the index in the other order
C32_WitnessOther ==
  /\ pc = "done"
  /\ Len(IndexEntries) = 2
  /\ IndexEntries[1].name = <<"a">> /\ IndexEntries[2].name = <<"b">>
  /\ DateOf(IndexEntries[1]) = DateOf(IndexEntries[2])
  /\ hist.wrote = {<<"a">>, <<"b">>}

\* glob returned a.md before b.md and the stat of b.md completed first
C32_WitnessStat ==
  /\ pc = "done"
  /\ inDirFiles = <<SrcA, SrcB>>
  /\ Len(res.case4) = 2
  /\ res.case4[1].name = <<"b">> /\ res.case4[2].name = <<"a">>
  /\ Len(IndexEntries) = 2

\* a build that reused two outputs read them in either order
C32_WitnessReuse ==
  /\ pc = "done"
  /\ hist.read = {<<"a">>, <<"b">>}
  /\ IndexEntries[1].name = <<"b">> /\ IndexEntries[2].name = <<"a">>
  /\ DateOf(IndexEntries[1]) = DateOf(IndexEntries[2])

-----------------------------------------------------------------------------
(* Frame of a build: what it deletes and what it writes *)

\* a step of a build: neither the clock nor the user has acted
BuildStep == now' = now /\ hist'.edits = hist.edits

\* the output files the step has given to fs.writeFile (lines 140 and 161),
\* and any output file that is new or changed after the step
WrittenByStep ==
  (hist'.wrote \ hist.wrote)
    \cup (IF hist'.indexWritten /\ ~hist.indexWritten THEN {postsName} ELSE {})
    \cup {n \in DOMAIN outFiles' :
            n \notin DOMAIN outFiles \/ outFiles'[n] # outFiles[n]}

\* the output files the step has removed
DeletedByStep == DOMAIN outFiles \ DOMAIN outFiles'

\* C33: no step of a build, completed or aborted, creates, changes or removes
\* a source file; a file it removes is the output of a Case 3 entry, an
\* output no source resolves to and never the index; a file it writes is the
\* index or <identity>.json of a source it rendered to a record, the identity
\* being of the identity grammar, so that the path lies in the output
\* directory.
C33_SourcesUntouched ==
  [][BuildStep =>
       /\ srcFiles' = srcFiles
       /\ \A n \in DeletedByStep :
            /\ \E i \in 1..Len(res.case3) : res.case3[i].processedFile = Json(n)
            /\ n # postsName
            /\ \A p \in DOMAIN srcFiles : getNameOptional(p) # Some(n)
       /\ \A n \in WrittenByStep :
            \/ n = postsName /\ pc = "reuse" /\ pc' = "done"
            \/ /\ pc = "write"
               /\ PostNameRegex(n)
               /\ \E p \in DOMAIN hist.calls :
                    /\ getNameOptional(p) = Some(n)
                    /\ processMd(p, ReadFile(p)).kind = "value"]_vars

\* a completed build has deleted an orphaned output and written a per-post
\* file and the index, and the sources are there as before
C33_Witness ==
  /\ pc = "done"
  /\ hist.deleted # {}
  /\ hist.wrote # {}
  /\ hist.indexWritten
  /\ DOMAIN srcFiles # {}

\* an aborted build has deleted an orphaned output
C33_WitnessAborted ==
  /\ pc = "aborted" /\ hist.abort = "render"
  /\ hist.deleted # {}
  /\ DOMAIN srcFiles # {}

-----------------------------------------------------------------------------
(* SpecName: the grammar of the identities getNameOptional returns *)

\* C34: an identity returned by getNameOptional, from the direct match of the
\* base name or from the bracketed token, is not empty and has only
\* characters of the class [a-zA-Z0-9_-]; the test of the resolved name
\* against PostNameRegex in the name check therefore rejects no path that
\* resolves.
C34_IdentityOfGrammar ==
  dOut.called =>
    /\ dOut.value.defined =>
         LET n == dOut.value.value
         IN /\ Len(n) > 0
            /\ \A i \in 1..Len(n) : n[i] \in IdChars
            /\ dOut.name = n
    /\ (checkFilenamesRegex(<<dIn.filePath>>) = <<>>) <=> dOut.value.defined

\* an identity taken from the bracketed token of a base name that has
\* characters outside the class around the token
C34_Witness ==
  /\ dOut.called
  /\ dOut.value.defined
  /\ \E i \in 1..Len(dIn.filePath.name) : dIn.filePath.name[i] = " "
  /\ Len(dOut.value.value) < Len(dIn.filePath.name) - 2

\* an identity that is the base name itself
C34_WitnessDirect ==
  /\ dOut.called
  /\ dOut.value = Some(dIn.filePath.name)
  /\ Len(dIn.filePath.name) = MaxNameLen

\* a bracketed text with a character outside the class is no identity
C34_WitnessRefused ==
  /\ dOut.called
  /\ dIn.filePath.name = <<"[", "a", " ", "a", "]">>
  /\ ~dOut.value.defined

-----------------------------------------------------------------------------
(* A source deleted while the build waits for diff *)

\* the build rendered a source deleted after its fs.stat had resolved:
\* readFile rejected, the source was reported and the build returned at line
\* 133
GoneSourceReported ==
  /\ pc = "aborted" /\ hist.abort = "render"
  /\ \E p \in hist.reported : p \notin DOMAIN srcFiles /\ p \in DOMAIN lostStats

\* the build completed with the output of a source deleted after its fs.stat
\* had resolved: Case 1, the output was read and its entry is in the index
GoneSourceReused ==
  /\ pc = "done"
  /\ \E p \in DOMAIN lostStats :
       getName(p) \in hist.read /\ getName(p) \in IndexNames

=============================================================================
